---- MODULE Spec2Model ----
(***************************************************************************)
(* Note Links plugin: link extraction from an editor's text (frontmatter   *)
(* properties and note body), URL standardisation, and the sidebar view's  *)
(* duplicate filter.  Strings are sequences of one-character strings;      *)
(* positions inside the operators are 1-based (TLA+ sequences) and are     *)
(* turned into the 0-based JavaScript indices where the code stores them.  *)
(***************************************************************************)
EXTENDS Integers, Sequences, FiniteSets, TLC

VARIABLES
    content,           \* editor.getValue() of the active markdown editor
    frontmatterLinks,  \* LinkListView.frontmatterLinks
    noteLinks,         \* LinkListView.noteLinks
    filterDuplicates,  \* LinkListView.filterDuplicates (and settings.filterDuplicates)
    shown,             \* the two lists handed to renderLinkSection by the last render
    candidate,         \* argument of the last standardizeUrl call under test
    urlInfo,           \* its result
    toggles,           \* 'change' events the filter checkbox has dispatched so far
    dom,               \* the view's container: its children, the render calls
                       \* suspended at their await, the saveSettings calls in flight
    plugin             \* LinkViewerPlugin: handlers registered, the view field,
                       \* the workspace's leaf and active editor, a TypeError thrown

vars == <<content, frontmatterLinks, noteLinks, filterDuplicates, shown, candidate, urlInfo,
          toggles, dom, plugin>>

-----------------------------------------------------------------------------
(* Bounds of the model *)

MaxLines == 4

MaxParts == 3

MaxLinks == 2

-----------------------------------------------------------------------------
(* Characters and character classes of the regular expressions *)

LowerCase == <<"a","b","c","d","e","f","g","h","i","j","k","l","m",
               "n","o","p","q","r","s","t","u","v","w","x","y","z">>

UpperCase == <<"A","B","C","D","E","F","G","H","I","J","K","L","M",
               "N","O","P","Q","R","S","T","U","V","W","X","Y","Z">>

Digits == {"0","1","2","3","4","5","6","7","8","9"}

Range(s) == {s[i] : i \in 1..Len(s)}

Min(S) == CHOOSE x \in S : \A y \in S : x <= y

Max(S) == CHOOSE x \in S : \A y \in S : x >= y

UpperLetters == Range(UpperCase)

\* [a-zA-Z]
Letters == Range(LowerCase) \cup UpperLetters

\* [a-zA-Z0-9-]
HostChars == Letters \cup Digits \cup {"-"}

\* \w
WordChars == Letters \cup Digits \cup {"_"}

\* [\w-]
TagChars == WordChars \cup {"-"}

\* \s
SpaceChars == {" ", "\t", "\n", "\r", "\f"}

\* the characters outside [^\s\]]
NonUrlChars == SpaceChars \cup {"]"}

\* the characters . does not match
LineTerminators == {"\n", "\r"}

\* String.prototype.toLowerCase on one character
lowerChar(c) ==
    IF c \in UpperLetters
    THEN LowerCase[CHOOSE i \in 1..Len(UpperCase) : UpperCase[i] = c]
    ELSE c

\* String.prototype.toLowerCase
toLowerCase(s) == [i \in 1..Len(s) |-> lowerChar(s[i])]

\* s.startsWith(t, i-1): t occurs in s at 1-based position i
StartsWithAt(s, i, t) ==
    /\ i >= 1
    /\ i + Len(t) - 1 <= Len(s)
    /\ \A k \in 1..Len(t) : s[i + k - 1] = t[k]

\* s.indexOf(t) as a 0-based index, -1 when t does not occur
indexOf(s, t) ==
    LET hits == {i \in 1..(Len(s) + 1) : StartsWithAt(s, i, t)}
    IN  IF hits = {} THEN -1 ELSE Min(hits) - 1

\* s.split(sep) for a one-character separator
RECURSIVE split(_, _)
split(s, sep) ==
    LET hits == {i \in 1..Len(s) : s[i] = sep}
    IN  IF hits = {} THEN <<s>>
        ELSE LET i == Min(hits)
             IN  <<SubSeq(s, 1, i - 1)>> \o split(SubSeq(s, i + 1, Len(s)), sep)

\* the 1-based position just after the longest run from i of characters in cls
RECURSIVE RunEnd(_, _, _)
RunEnd(s, i, cls) ==
    IF i > Len(s) THEN Len(s) + 1
    ELSE IF s[i] \notin cls THEN i
    ELSE RunEnd(s, i + 1, cls)

\* the 1-based position just after the longest run from i of characters not in cls
RECURSIVE RunEndNot(_, _, _)
RunEndNot(s, i, cls) ==
    IF i > Len(s) THEN Len(s) + 1
    ELSE IF s[i] \in cls THEN i
    ELSE RunEndNot(s, i + 1, cls)

-----------------------------------------------------------------------------
(* URL processing utilities *)

commonTLDs == {
    <<"c","o","m">>, <<"n","e","t">>, <<"o","r","g">>, <<"e","d","u">>,
    <<"g","o","v">>, <<"m","i","l">>,
    <<"i","o">>, <<"a","i">>, <<"a","p","p">>, <<"d","e","v">>,
    <<"c","l","o","u","d">>,
    <<"c","o">>, <<"m","e">>, <<"i","n","f","o">>, <<"b","i","z">>,
    <<"t","e","c","h">>,
    <<"b","l","o","g">>, <<"d","e","s","i","g","n">>, <<"s","t","o","r","e">>,
    <<"s","h","o","p">>,
    <<"u","k">>, <<"u","s">>, <<"e","u">>, <<"c","a">>, <<"a","u">>,
    <<"d","e">>, <<"f","r">>
}

HttpPrefix == <<"h","t","t","p",":","/","/">>

HttpsPrefix == <<"h","t","t","p","s",":","/","/">>

\* the undefined result of standardizeUrl
Undefined == [defined |-> FALSE]

\* url.startsWith('http://') || url.startsWith('https://')
hasProtocol(url) == StartsWithAt(url, 1, HttpPrefix) \/ StartsWithAt(url, 1, HttpsPrefix)

\* tldOf without the toLowerCase() call
tldOfCaseSensitive(url) ==
    LET domainParts == split(split(url, "/")[1], ".")
    IN  domainParts[Len(domainParts)]

\* url.split('/')[0].split('.') and its last element, lower-cased
tldOf(url) ==
    LET domainParts == split(split(url, "/")[1], ".")
    IN  toLowerCase(domainParts[Len(domainParts)])

standardizeUrl(url) ==
    IF hasProtocol(url)
    THEN [defined |-> TRUE, standardized |-> url, display |-> url]
    ELSE IF tldOf(url) \in commonTLDs
         THEN [defined |-> TRUE, standardized |-> HttpsPrefix \o url, display |-> url]
         ELSE Undefined

-----------------------------------------------------------------------------
(* The regular expressions of the two extraction passes.  A match is a      *)
(* record [ok, index (0-based), text]; NoMatch stands for null.             *)

NoMatch == [ok |-> FALSE]

NewLine == "\n"

Delimiter == <<"-","-","-">>

\* content.match(/^---\n([\s\S]*?)\n---/): group 1 and the matched text.
\* The lazy group ends at the first "\n---" found at or after position 5.
frontmatterMatch(text) ==
    LET closes == {j \in 5..Len(text) : StartsWithAt(text, j, <<NewLine>> \o Delimiter)}
    IN  IF StartsWithAt(text, 1, Delimiter \o <<NewLine>>) /\ closes # {}
        THEN [ok |-> TRUE,
              text |-> SubSeq(text, 1, Min(closes) + 3),
              group |-> SubSeq(text, 5, Min(closes) - 1)]
        ELSE NoMatch

\* content.match(/^---\n[\s\S]*?\n---\n/): the matched text.
noteFrontmatterMatch(text) ==
    LET closes == {j \in 5..Len(text) :
                      StartsWithAt(text, j, <<NewLine>> \o Delimiter \o <<NewLine>>)}
    IN  IF StartsWithAt(text, 1, Delimiter \o <<NewLine>>) /\ closes # {}
        THEN [ok |-> TRUE, text |-> SubSeq(text, 1, Min(closes) + 4)]
        ELSE NoMatch

\* line.match(/^(\w+):\s*(.*)/): key and value
propertyMatch(line) ==
    LET keyEnd == RunEnd(line, 1, WordChars)
        valStart == RunEnd(line, keyEnd + 1, SpaceChars)
    IN  IF keyEnd > 1 /\ keyEnd <= Len(line) /\ line[keyEnd] = ":"
        THEN [ok |-> TRUE,
              key |-> SubSeq(line, 1, keyEnd - 1),
              value |-> SubSeq(line, valStart, RunEndNot(line, valStart, LineTerminators) - 1)]
        ELSE NoMatch

\* https?:\/\/ at i: the position after it, 0 when it does not match
schemeEnd(s, i) ==
    IF StartsWithAt(s, i, HttpsPrefix) THEN i + Len(HttpsPrefix)
    ELSE IF StartsWithAt(s, i, HttpPrefix) THEN i + Len(HttpPrefix)
    ELSE 0

\* \.[a-zA-Z]{2,} at j (greedy): the position after it, 0 when it does not match
tldEnd(s, j) ==
    IF j <= Len(s) /\ s[j] = "." /\ RunEnd(s, j + 1, Letters) >= j + 3
    THEN RunEnd(s, j + 1, Letters)
    ELSE 0

\* (?:\.[a-zA-Z0-9-]+)*\.[a-zA-Z]{2,} at j, by backtracking: one more
\* repetition of the group is tried first, its label longest first, and the
\* closing \.[a-zA-Z]{2,} only when no repetition leads to a match.
RECURSIVE hostRestEnd(_, _)
hostRestEnd(s, j) ==
    IF ~(j <= Len(s) /\ s[j] = ".") THEN 0
    ELSE LET labelEnds == {e \in (j + 2)..RunEnd(s, j + 1, HostChars) :
                              e <= Len(s) /\ s[e] = "." /\ hostRestEnd(s, e) # 0}
         IN  IF labelEnds # {} THEN hostRestEnd(s, Max(labelEnds))
             ELSE tldEnd(s, j)

\* ([a-zA-Z0-9-]+(?:\.[a-zA-Z0-9-]+)*\.[a-zA-Z]{2,}) at i
hostEnd(s, i) ==
    LET firstEnds == {e \in (i + 1)..RunEnd(s, i, HostChars) :
                         e <= Len(s) /\ s[e] = "." /\ hostRestEnd(s, e) # 0}
    IN  IF firstEnds = {} THEN 0 ELSE hostRestEnd(s, Max(firstEnds))

\* (?:\/[^\s\]]*)? at e
pathEnd(s, e) ==
    IF e <= Len(s) /\ s[e] = "/" THEN RunEndNot(s, e + 1, NonUrlChars) ELSE e

\* (?:www\.)?(host)(?:\/[^\s\]]*)? at i: "www." is consumed first, and given
\* back when no host follows it
wwwHostEnd(s, i) ==
    LET afterWww == hostEnd(s, i + 4)
        plain == hostEnd(s, i)
    IN  IF StartsWithAt(s, i, <<"w","w","w",".">>) /\ afterWww # 0
        THEN pathEnd(s, afterWww)
        ELSE IF plain # 0 THEN pathEnd(s, plain) ELSE 0

\* the frontmatter urlRegex at i:
\* (https?:\/\/[^\s\]]+)|(?:www\.)?(host)(?:\/[^\s\]]*)?
frontmatterUrlEnd(s, i) ==
    LET scheme == schemeEnd(s, i)
        rest == RunEndNot(s, scheme, NonUrlChars)
    IN  IF scheme # 0 /\ rest > scheme THEN rest ELSE wwwHostEnd(s, i)

\* the note urlRegex at i:
\* (?:https?:\/\/)?(?:www\.)?(host)(?:\/[^\s\]]*)?
noteUrlEnd(s, i) ==
    LET scheme == schemeEnd(s, i)
        withScheme == wwwHostEnd(s, scheme)
    IN  IF scheme # 0 /\ withScheme # 0 THEN withScheme ELSE wwwHostEnd(s, i)

\* the end of the match at i of the regex of extractFrontmatterLinks
\* (isFromFrontmatter) or of extractNoteLinks, 0 for none
urlEnd(isFromFrontmatter, s, i) ==
    IF isFromFrontmatter THEN frontmatterUrlEnd(s, i) ELSE noteUrlEnd(s, i)

\* the match object of a match from 1-based i to e: match.index, match[0]
\* and the lastIndex exec leaves
matchObject(s, i, e) ==
    [ok |-> TRUE, index |-> i - 1, text |-> SubSeq(s, i, e - 1), lastIndex |-> e - 1]

\* the search of exec from 1-based position i: the first position where the
\* regex matches; null, and lastIndex 0, when there is none
RECURSIVE urlExecFrom(_, _, _)
RECURSIVE urlExecAt(_, _, _, _)
urlExecAt(isFromFrontmatter, s, i, e) ==
    IF e # 0 THEN matchObject(s, i, e) ELSE urlExecFrom(isFromFrontmatter, s, i + 1)

urlExecFrom(isFromFrontmatter, s, i) ==
    IF i > Len(s) THEN [ok |-> FALSE, lastIndex |-> 0]
    ELSE urlExecAt(isFromFrontmatter, s, i, urlEnd(isFromFrontmatter, s, i))

\* urlRegex.exec(s) with urlRegex.lastIndex = lastIndex
urlExec(isFromFrontmatter, s, lastIndex) == urlExecFrom(isFromFrontmatter, s, lastIndex + 1)

\* a match put in front of the result of the rest of the loop
withMatch(match, rest) ==
    [matches |-> <<[index |-> match.index, text |-> match.text]>> \o rest.matches,
     lastIndex |-> rest.lastIndex]

\* whileExec for a loop that a match refused by standardizeUrl ends (break),
\* lastIndex left at the end of that match
RECURSIVE whileExecBreak(_, _, _)
RECURSIVE whileBodyBreak(_, _, _)
whileBodyBreak(isFromFrontmatter, s, match) ==
    IF ~match.ok \/ ~standardizeUrl(match.text).defined
    THEN [matches |-> <<>>, lastIndex |-> match.lastIndex]
    ELSE withMatch(match, whileExecBreak(isFromFrontmatter, s, match.lastIndex))

whileExecBreak(isFromFrontmatter, s, lastIndex) ==
    whileBodyBreak(isFromFrontmatter, s, urlExec(isFromFrontmatter, s, lastIndex))

\* while ((match = urlRegex.exec(s)) !== null) entered with urlRegex.lastIndex:
\* the matches in the order found and the lastIndex the loop leaves, which
\* exec sets to the end of each match and to 0 when it returns null
RECURSIVE whileExec(_, _, _)
RECURSIVE whileBody(_, _, _)
whileBody(isFromFrontmatter, s, match) ==
    IF ~match.ok THEN [matches |-> <<>>, lastIndex |-> match.lastIndex]
    ELSE withMatch(match, whileExec(isFromFrontmatter, s, match.lastIndex))

whileExec(isFromFrontmatter, s, lastIndex) ==
    whileBody(isFromFrontmatter, s, urlExec(isFromFrontmatter, s, lastIndex))

\* the matches of the loop alone
urlMatches(isFromFrontmatter, s, lastIndex) ==
    whileExec(isFromFrontmatter, s, lastIndex).matches

\* tagMatches with /#\w+/g for the tag regex
RECURSIVE tagMatchesWordOnly(_, _)
tagMatchesWordOnly(s, lastIndex) ==
    LET starts == {i \in lastIndex..Len(s) :
                      s[i] = "#" /\ RunEnd(s, i + 1, WordChars) > i + 1}
    IN  IF starts = {} THEN <<>>
        ELSE LET i == Min(starts)
                 e == RunEnd(s, i + 1, WordChars)
             IN  <<SubSeq(s, i + 1, e - 1)>> \o tagMatchesWordOnly(s, e)

\* (line.match(/#[\w-]+/g) || []).map(tag => tag.substring(1))
RECURSIVE tagMatches(_, _)
tagMatches(s, lastIndex) ==
    LET starts == {i \in lastIndex..Len(s) :
                      s[i] = "#" /\ RunEnd(s, i + 1, TagChars) > i + 1}
    IN  IF starts = {} THEN <<>>
        ELSE LET i == Min(starts)
                 e == RunEnd(s, i + 1, TagChars)
             IN  <<SubSeq(s, i + 1, e - 1)>> \o tagMatches(s, e)

-----------------------------------------------------------------------------
(* Extraction: LinkViewerPlugin.extractFrontmatterLinks / extractNoteLinks *)

RECURSIVE flatten(_)
flatten(seqs) == IF seqs = <<>> THEN <<>> ELSE Head(seqs) \o flatten(Tail(seqs))

\* frontmatterLineNumber without the line of the opening '---'
frontmatterLineNumberRelative(index) == index

\* const actualLineNumber = index + 1 ("Add 1 to account for the opening '---'")
frontmatterLineNumber(index) == index + 1

\* frontmatterLink with the tags of the line, as the note records have them
frontmatterLinkWithTags(key, line, index, matchedUrl, info) ==
    [url |-> info.standardized,
     displayUrl |-> info.display,
     tags |-> tagMatches(line, 1),
     position |-> [from |-> [line |-> frontmatterLineNumber(index),
                             ch |-> indexOf(line, matchedUrl)],
                   to |-> [line |-> frontmatterLineNumber(index),
                           ch |-> indexOf(line, matchedUrl) + Len(matchedUrl)]],
     isFromFrontmatter |-> TRUE,
     propertyKey |-> key]

\* the LinkInfo pushed for one accepted match of a frontmatter value
frontmatterLink(key, line, index, matchedUrl, info) ==
    [url |-> info.standardized,
     displayUrl |-> info.display,
     tags |-> <<>>,
     position |-> [from |-> [line |-> frontmatterLineNumber(index),
                             ch |-> indexOf(line, matchedUrl)],
                   to |-> [line |-> frontmatterLineNumber(index),
                           ch |-> indexOf(line, matchedUrl) + Len(matchedUrl)]],
     isFromFrontmatter |-> TRUE,
     propertyKey |-> key]

\* the link pushed for one match of a frontmatter value, none when
\* standardizeUrl refuses it
frontmatterMatchLink(key, line, index, matchedUrl, info) ==
    IF info.defined THEN <<frontmatterLink(key, line, index, matchedUrl, info)>> ELSE <<>>

\* the links pushed for the matches of one frontmatter value
RECURSIVE frontmatterMatchLinks(_, _, _, _)
frontmatterMatchLinks(key, line, index, matches) ==
    IF matches = <<>> THEN <<>>
    ELSE frontmatterMatchLink(key, line, index, Head(matches).text,
                              standardizeUrl(Head(matches).text))
         \o frontmatterMatchLinks(key, line, index, Tail(matches))

\* what the while loop of a key: value line gives the forEach: the lastIndex
\* the line was entered with, the links pushed, the lastIndex left
frontmatterLineOf(key, line, index, lastIndex, loop) ==
    [lastIndex |-> lastIndex,
     links |-> frontmatterMatchLinks(key, line, index, loop.matches),
     left |-> loop.lastIndex]

\* the body of lines.forEach((line, index) => ...) of extractFrontmatterLinks,
\* entered with urlRegex.lastIndex; a line without key: value has no loop
frontmatterLine(line, index, lastIndex) ==
    LET pm == propertyMatch(line)
    IN  IF pm.ok
        THEN frontmatterLineOf(pm.key, line, index, lastIndex,
                               whileExec(TRUE, pm.value, lastIndex))
        ELSE [lastIndex |-> lastIndex, links |-> <<>>, left |-> lastIndex]

\* the links of that body alone
frontmatterLineLinks(line, index, lastIndex) == frontmatterLine(line, index, lastIndex).links

\* frontmatterScan for a forEach that a line without key: value ends
RECURSIVE frontmatterScanStopping(_, _, _)
RECURSIVE frontmatterScanStoppingOn(_, _, _)
frontmatterScanStoppingOn(lines, index, body) ==
    <<body>> \o frontmatterScanStopping(lines, index + 1, body.left)

frontmatterScanStopping(lines, index, lastIndex) ==
    IF index >= Len(lines) \/ ~propertyMatch(lines[index + 1]).ok THEN <<>>
    ELSE frontmatterScanStoppingOn(lines, index,
                                   frontmatterLine(lines[index + 1], index, lastIndex))

\* lines.forEach of extractFrontmatterLinks from line index on, with the one
\* urlRegex of the call: what each turn did, the next turn entered with the
\* lastIndex the turn before left
RECURSIVE frontmatterScan(_, _, _)
RECURSIVE frontmatterScanOn(_, _, _)
frontmatterScanOn(lines, index, body) ==
    <<body>> \o frontmatterScan(lines, index + 1, body.left)

frontmatterScan(lines, index, lastIndex) ==
    IF index >= Len(lines) THEN <<>>
    ELSE frontmatterScanOn(lines, index, frontmatterLine(lines[index + 1], index, lastIndex))

\* the lines of the frontmatter block: frontmatter.split('\n')
frontmatterLines(text) ==
    LET fm == frontmatterMatch(text)
    IN  IF fm.ok THEN split(fm.group, NewLine) ELSE <<>>

\* const urlRegex = /.../g is new in every call: its lastIndex begins at 0
extractFrontmatterLinks(text) ==
    LET scan == frontmatterScan(frontmatterLines(text), 0, 0)
    IN  flatten([k \in 1..Len(scan) |-> scan[k].links])

\* contentStartLine of extractNoteLinks: 0, or
\* frontmatterMatch[0].split('\n').length - 1
contentStartLine(text) ==
    LET fm == noteFrontmatterMatch(text)
    IN  IF fm.ok THEN Len(split(fm.text, NewLine)) - 1 ELSE 0

\* the LinkInfo pushed for one accepted match of a note line
noteLink(line, actualLineNumber, match, info) ==
    [url |-> info.standardized,
     displayUrl |-> info.display,
     tags |-> tagMatches(line, 1),
     position |-> [from |-> [line |-> actualLineNumber, ch |-> match.index],
                   to |-> [line |-> actualLineNumber,
                           ch |-> match.index + Len(match.text)]],
     isFromFrontmatter |-> FALSE]

\* the link pushed for one match of a note line, none when standardizeUrl
\* refuses it
noteMatchLink(line, actualLineNumber, match, info) ==
    IF info.defined THEN <<noteLink(line, actualLineNumber, match, info)>> ELSE <<>>

\* the links pushed for the matches of one note line
RECURSIVE noteMatchLinks(_, _, _)
noteMatchLinks(line, actualLineNumber, matches) ==
    IF matches = <<>> THEN <<>>
    ELSE noteMatchLink(line, actualLineNumber, Head(matches),
                       standardizeUrl(Head(matches).text))
         \o noteMatchLinks(line, actualLineNumber, Tail(matches))

\* what the while loop of a note line gives the forEach
noteLineOf(line, actualLineNumber, lastIndex, loop) ==
    [lastIndex |-> lastIndex,
     links |-> noteMatchLinks(line, actualLineNumber, loop.matches),
     left |-> loop.lastIndex]

\* the body of contentLines.forEach((line, index) => ...) of extractNoteLinks,
\* entered with urlRegex.lastIndex
noteLine(line, actualLineNumber, lastIndex) ==
    noteLineOf(line, actualLineNumber, lastIndex, whileExec(FALSE, line, lastIndex))

\* the links of that body alone
noteLineLinks(line, actualLineNumber, lastIndex) ==
    noteLine(line, actualLineNumber, lastIndex).links

\* contentLines.forEach of extractNoteLinks from line index on, with the one
\* urlRegex of the call: what each turn did, the next turn entered with the
\* lastIndex the turn before left
RECURSIVE noteScan(_, _, _, _)
RECURSIVE noteScanOn(_, _, _, _)
noteScanOn(contentLines, index, start, body) ==
    <<body>> \o noteScan(contentLines, index + 1, start, body.left)

noteScan(contentLines, index, start, lastIndex) ==
    IF index >= Len(contentLines) THEN <<>>
    ELSE noteScanOn(contentLines, index, start,
                    noteLine(contentLines[index + 1], index + start, lastIndex))

\* const contentLines = content.split('\n').slice(contentStartLine)
noteContentLines(text) ==
    LET lines == split(text, NewLine)
    IN  SubSeq(lines, contentStartLine(text) + 1, Len(lines))

extractNoteLinks(text) ==
    LET scan == noteScan(noteContentLines(text), 0, contentStartLine(text), 0)
    IN  flatten([k \in 1..Len(scan) |-> scan[k].links])

-----------------------------------------------------------------------------
(* The sidebar view: LinkListView *)

\* filterLoop with a kept link put in front of the list (unshift for push)
RECURSIVE filterLoopNewestFirst(_, _)
filterLoopNewestFirst(links, seenUrls) ==
    IF links = <<>> THEN [kept |-> <<>>, seen |-> seenUrls]
    ELSE LET standardizedUrl == toLowerCase(Head(links).url)
         IN  IF standardizedUrl \notin seenUrls
             THEN LET rest == filterLoopNewestFirst(Tail(links),
                                                    seenUrls \cup {standardizedUrl})
                  IN  [kept |-> rest.kept \o <<Head(links)>>, seen |-> rest.seen]
             ELSE filterLoopNewestFirst(Tail(links), seenUrls)

\* one for-loop of filterLinks: the links kept and the seenUrls set after it
RECURSIVE filterLoop(_, _)
filterLoop(links, seenUrls) ==
    IF links = <<>> THEN [kept |-> <<>>, seen |-> seenUrls]
    ELSE LET standardizedUrl == toLowerCase(Head(links).url)
         IN  IF standardizedUrl \notin seenUrls
             THEN LET rest == filterLoop(Tail(links), seenUrls \cup {standardizedUrl})
                  IN  [kept |-> <<Head(links)>> \o rest.kept, seen |-> rest.seen]
             ELSE filterLoop(Tail(links), seenUrls)

\* filterLinks with a seenUrls set of its own for each section
filterLinksPerSection(flag, fmLinks, nLinks) ==
    IF ~flag THEN [frontmatter |-> fmLinks, note |-> nLinks]
    ELSE [frontmatter |-> filterLoop(fmLinks, {}).kept, note |-> filterLoop(nLinks, {}).kept]

filterLinks(flag, fmLinks, nLinks) ==
    IF ~flag THEN [frontmatter |-> fmLinks, note |-> nLinks]
    ELSE LET first == filterLoop(fmLinks, {})
             second == filterLoop(nLinks, first.seen)
         IN  [frontmatter |-> first.kept, note |-> second.kept]

\* render(): the lists given to the two renderLinkSection calls
render(flag, fmLinks, nLinks) == filterLinks(flag, fmLinks, nLinks)

\* updateLinks(frontmatterLinks, noteLinks)
updateLinks(fmLinks, nLinks) ==
    /\ frontmatterLinks' = fmLinks
    /\ noteLinks' = nLinks
    /\ shown' = render(filterDuplicates, fmLinks, nLinks)

\* updateLinkList with accumulating lists: the links of this pass pushed
\* after those of the pass before
updateLinkListAccumulating(text) ==
    updateLinks(frontmatterLinks \o extractFrontmatterLinks(text),
                noteLinks \o extractNoteLinks(text))

\* updateLinkList() with the active editor holding text
updateLinkList(text) == updateLinks(extractFrontmatterLinks(text), extractNoteLinks(text))

-----------------------------------------------------------------------------
(* The documents typed into the editor: lines drawn from a fixed set *)

KeyColon == <<"k",":"," ">>

Lines == {
    Delimiter,
    Delimiter \o <<"x">>,
    KeyColon \o <<"a",".","i","o"," ","a",".","i","o"," ","#","u">>,
    <<"b",".","c","o","/","y"," ">> \o HttpPrefix \o <<"h",":","1">>,
    <<>>,
    KeyColon \o <<"x",".","z","z"," ">> \o HttpsPrefix
        \o <<"A",".","i","o","/","x"," ","#","t","-","1">>
}

NumLines(text) == Len(split(text, NewLine))

NoLinks == [frontmatter |-> <<>>, note |-> <<>>]

NotCalled == [called |-> FALSE]

\* the container of a view that has not rendered yet
EmptyContainer == [panel |-> <<>>, pending |-> 0, saving |-> 0]

\* the plugin before onload: the view field is declared and not assigned
NotLoaded ==
    [registered |-> FALSE, opening |-> FALSE, leaf |-> FALSE, view |-> FALSE,
     activeEditor |-> FALSE, typeError |-> FALSE]

Init ==
    /\ content = <<>>
    /\ frontmatterLinks = <<>>
    /\ noteLinks = <<>>
    /\ filterDuplicates \in BOOLEAN
    /\ shown = NoLinks
    /\ candidate = <<>>
    /\ urlInfo = NotCalled
    /\ toggles = 0
    /\ dom = EmptyContainer
    /\ plugin = NotLoaded

\* 'editor-change': a line is typed at the end of the note, then updateLinkList()
EditorChange(line) ==
    /\ content = <<>> \/ NumLines(content) < MaxLines
    /\ content' = IF content = <<>> THEN line ELSE content \o <<NewLine>> \o line
    /\ updateLinkList(content')
    /\ UNCHANGED <<filterDuplicates, candidate, urlInfo, toggles, dom, plugin>>

\* the filter checkbox's 'change' listener
CheckboxChange ==
    /\ filterDuplicates' = ~filterDuplicates
    /\ shown' = render(filterDuplicates', frontmatterLinks, noteLinks)
    /\ UNCHANGED <<content, frontmatterLinks, noteLinks, candidate, urlInfo, toggles, dom, plugin>>

\* the 'active-leaf-change' handler: updateLinkList once more on the text as
\* it is
ActiveLeafChange ==
    /\ updateLinkList(content)
    /\ UNCHANGED <<content, filterDuplicates, candidate, urlInfo, toggles, dom, plugin>>

Next ==
    \/ \E line \in Lines : EditorChange(line)
    \/ ActiveLeafChange
    \/ CheckboxChange

Spec == Init /\ [][Next]_vars

-----------------------------------------------------------------------------
(* standardizeUrl on its own: candidates put together from a few parts *)

UrlParts == {
    HttpPrefix,
    HttpsPrefix,
    <<"a",".","i","o">>,
    <<"b",".","C","o">>,
    <<"x",".","z","z">>,
    <<"/">>,
    <<".">>,
    <<"H","T","T","P",":">>
}

Candidates == {flatten(ps) : ps \in UNION {[1..n -> UrlParts] : n \in 0..MaxParts}}

InitUrl ==
    /\ content = <<>>
    /\ frontmatterLinks = <<>>
    /\ noteLinks = <<>>
    /\ filterDuplicates = FALSE
    /\ shown = NoLinks
    /\ candidate \in Candidates
    /\ urlInfo = NotCalled
    /\ toggles = 0
    /\ dom = EmptyContainer
    /\ plugin = NotLoaded

\* const urlInfo = standardizeUrl(matchedUrl)
Standardize ==
    /\ ~urlInfo.called
    /\ urlInfo' = [called |-> TRUE, result |-> standardizeUrl(candidate)]
    /\ UNCHANGED <<content, frontmatterLinks, noteLinks, filterDuplicates, shown, candidate,
                   toggles, dom, plugin>>

NextUrl == Standardize

SpecUrl == InitUrl /\ [][NextUrl]_vars

-----------------------------------------------------------------------------
(* The view on its own: updateLinks called with lists of link records that  *)
(* grow by one record at a time, and the filter checkbox                    *)

LinkUrls == {
    HttpsPrefix \o <<"a",".","i","o">>,
    HttpsPrefix \o <<"A",".","i","o">>,
    HttpsPrefix \o <<"b",".","c","o">>
}

\* a LinkInfo as extractFrontmatterLinks builds it
FrontmatterRecord(u) ==
    [url |-> u, displayUrl |-> u, tags |-> <<>>,
     position |-> [from |-> [line |-> 1, ch |-> 3], to |-> [line |-> 1, ch |-> 3 + Len(u)]],
     isFromFrontmatter |-> TRUE, propertyKey |-> <<"k">>]

\* a LinkInfo as extractNoteLinks builds it
NoteRecord(u) ==
    [url |-> u, displayUrl |-> u, tags |-> <<>>,
     position |-> [from |-> [line |-> 3, ch |-> 0], to |-> [line |-> 3, ch |-> Len(u)]],
     isFromFrontmatter |-> FALSE]

InitView ==
    /\ content = <<>>
    /\ frontmatterLinks = <<>>
    /\ noteLinks = <<>>
    /\ filterDuplicates \in BOOLEAN
    /\ shown = NoLinks
    /\ candidate = <<>>
    /\ urlInfo = NotCalled
    /\ toggles = 0
    /\ dom = EmptyContainer
    /\ plugin = NotLoaded

\* this.view.updateLinks(frontmatterLinks, noteLinks) after a link was added
\* to the frontmatter
UpdateFrontmatter(u) ==
    /\ Len(frontmatterLinks) < MaxLinks
    /\ updateLinks(Append(frontmatterLinks, FrontmatterRecord(u)), noteLinks)
    /\ UNCHANGED <<content, filterDuplicates, candidate, urlInfo, toggles, dom, plugin>>

\* this.view.updateLinks(frontmatterLinks, noteLinks) after a link was added
\* to the note
UpdateNote(u) ==
    /\ Len(noteLinks) < MaxLinks
    /\ updateLinks(frontmatterLinks, Append(noteLinks, NoteRecord(u)))
    /\ UNCHANGED <<content, filterDuplicates, candidate, urlInfo, toggles, dom, plugin>>

\* the toggles counted one by one up to
MaxToggles == 2

\* the 'change' listener storing the filtered lists over the view's own
CheckboxToggleStoring ==
    /\ filterDuplicates' = ~filterDuplicates
    /\ shown' = render(filterDuplicates', frontmatterLinks, noteLinks)
    /\ frontmatterLinks' = shown'.frontmatter
    /\ noteLinks' = shown'.note
    /\ toggles' = IF toggles < MaxToggles THEN toggles + 1 ELSE toggles
    /\ UNCHANGED <<content, candidate, urlInfo, dom, plugin>>

\* checkbox.addEventListener('change', ...) run to its end, the event counted
CheckboxToggle ==
    /\ filterDuplicates' = ~filterDuplicates
    /\ shown' = render(filterDuplicates', frontmatterLinks, noteLinks)
    /\ toggles' = IF toggles < MaxToggles THEN toggles + 1 ELSE toggles
    /\ UNCHANGED <<content, frontmatterLinks, noteLinks, candidate, urlInfo, dom, plugin>>

NextView ==
    \/ \E u \in LinkUrls : UpdateFrontmatter(u)
    \/ \E u \in LinkUrls : UpdateNote(u)
    \/ CheckboxToggle

SpecView == InitView /\ [][NextView]_vars

-----------------------------------------------------------------------------
(* The view's render step by step.  render is async: it empties the        *)
(* container and builds the checkbox, then awaits, and the sections are    *)
(* appended when it resumes.  updateLinks does not await render, so a      *)
(* second updateLinks call made in the same job (the workspace triggers    *)
(* its handlers synchronously) starts before the first render resumes.     *)
(* The checkbox listener awaits saveSettings, which is file I/O, before it *)
(* calls render.                                                           *)

\* render calls suspended at their await at one time
MaxPending == 2

\* saveSettings calls in flight at one time
MaxSaving == 1

\* the children render gives the container
Checkbox == [kind |-> "filter-checkbox-container", links |-> <<>>]

NoLinksFound == [kind |-> "No links found in the current note.", links |-> <<>>]

\* renderLinkSection(container, title, links, showJumpButton): the children
\* it appends
renderLinkSection(title, links) ==
    IF links = <<>> THEN <<>> ELSE <<[kind |-> title, links |-> links]>>

\* render up to its await: container.empty() and renderFilterCheckbox
renderStart(d) == [d EXCEPT !.panel = <<Checkbox>>, !.pending = @ + 1]

\* render after its await: the children it appends
renderRest(flag, fmLinks, nLinks) ==
    LET filtered == filterLinks(flag, fmLinks, nLinks)
    IN  IF Len(filtered.frontmatter) = 0 /\ Len(filtered.note) = 0
        THEN <<NoLinksFound>>
        ELSE renderLinkSection("File Property's Links", filtered.frontmatter)
             \o renderLinkSection("Note's Links", filtered.note)

InitRender ==
    /\ content = <<>>
    /\ frontmatterLinks = <<>>
    /\ noteLinks = <<>>
    /\ filterDuplicates \in BOOLEAN
    /\ shown = NoLinks
    /\ candidate = <<>>
    /\ urlInfo = NotCalled
    /\ toggles = 0
    /\ dom = EmptyContainer
    /\ plugin = NotLoaded

\* this.view.updateLinks(frontmatterLinks, noteLinks): the lists are stored
\* and render runs up to its await
CallUpdateLinks(fmLinks, nLinks) ==
    /\ dom.pending < MaxPending
    /\ frontmatterLinks' = fmLinks
    /\ noteLinks' = nLinks
    /\ dom' = renderStart(dom)
    /\ UNCHANGED <<content, filterDuplicates, shown, candidate, urlInfo, toggles, plugin>>

\* a suspended render resumes: filterLinks on the lists and the flag as they
\* are now, then the sections
ResumeRender ==
    /\ dom.pending > 0
    /\ shown' = render(filterDuplicates, frontmatterLinks, noteLinks)
    /\ dom' = [dom EXCEPT !.panel = @ \o renderRest(filterDuplicates, frontmatterLinks, noteLinks),
                          !.pending = @ - 1]
    /\ UNCHANGED <<content, frontmatterLinks, noteLinks, filterDuplicates, candidate, urlInfo,
                   toggles, plugin>>

\* the checkbox 'change' listener up to its await of saveSettings; a click
\* is a job of its own, so no render is suspended when it runs
CheckboxChangeStart ==
    /\ dom.pending = 0
    /\ dom.panel # <<>>
    /\ dom.saving < MaxSaving
    /\ filterDuplicates' = ~filterDuplicates
    /\ dom' = [dom EXCEPT !.saving = @ + 1]
    /\ UNCHANGED <<content, frontmatterLinks, noteLinks, shown, candidate, urlInfo,
                   toggles, plugin>>

\* saveSettings is done and the listener calls render
SaveSettingsDone ==
    /\ dom.saving > 0
    /\ dom.pending = 0
    /\ dom' = renderStart([dom EXCEPT !.saving = @ - 1])
    /\ UNCHANGED <<content, frontmatterLinks, noteLinks, filterDuplicates, shown, candidate,
                   urlInfo, toggles, plugin>>

NextRender ==
    \/ \E u \in LinkUrls :
           /\ Len(frontmatterLinks) < MaxLinks
           /\ CallUpdateLinks(Append(frontmatterLinks, FrontmatterRecord(u)), noteLinks)
    \/ \E u \in LinkUrls :
           /\ Len(noteLinks) < MaxLinks
           /\ CallUpdateLinks(frontmatterLinks, Append(noteLinks, NoteRecord(u)))
    \/ CallUpdateLinks(frontmatterLinks, noteLinks)
    \/ ResumeRender
    \/ CheckboxChangeStart
    \/ SaveSettingsDone

SpecRender == InitRender /\ [][NextRender]_vars

-----------------------------------------------------------------------------
(* The plugin's life: onload registers the view factory and the two event  *)
(* handlers and then calls activateView, which asks the workspace for a    *)
(* leaf of the view type with setViewState and awaits it.  The view field  *)
(* is assigned only inside the factory, and the workspace decides when it  *)
(* calls the factory and when it triggers an event.                        *)

\* the lines typed while the plugin's life is followed
MaxEdits == 2

InitPlugin ==
    /\ content = <<>>
    /\ frontmatterLinks = <<>>
    /\ noteLinks = <<>>
    /\ filterDuplicates = FALSE
    /\ shown = NoLinks
    /\ candidate = <<>>
    /\ urlInfo = NotCalled
    /\ toggles = 0
    /\ dom = EmptyContainer
    /\ \E e \in BOOLEAN : plugin = [NotLoaded EXCEPT !.activeEditor = e]

\* updateLinkList() as the plugin runs it: nothing without an active
\* markdown editor; with one, this.view.updateLinks(...), a TypeError when
\* this.view is undefined
pluginUpdateLinkList(p, text) ==
    IF p.activeEditor /\ p.view
    THEN /\ updateLinkList(text)
         /\ plugin' = p
    ELSE /\ plugin' = [p EXCEPT !.typeError = @ \/ p.activeEditor]
         /\ UNCHANGED <<frontmatterLinks, noteLinks, shown>>

\* onload up to the await in activateView: the factory and the handlers are
\* registered, no leaf of the view type exists and leaf.setViewState is
\* called; the workspace may call the factory at once or later
Onload ==
    /\ ~plugin.registered
    /\ \E atOnce \in BOOLEAN :
           plugin' = [plugin EXCEPT !.registered = TRUE, !.opening = TRUE,
                                    !.leaf = atOnce, !.view = atOnce]
    /\ UNCHANGED <<content, frontmatterLinks, noteLinks, filterDuplicates, shown, candidate,
                   urlInfo, toggles, dom>>

\* the workspace calls the registered factory for the leaf being opened:
\* this.view = new LinkListView(leaf, this)
ViewFactory ==
    /\ plugin.opening
    /\ ~plugin.leaf
    /\ plugin' = [plugin EXCEPT !.leaf = TRUE, !.view = TRUE]
    /\ UNCHANGED <<content, frontmatterLinks, noteLinks, filterDuplicates, shown, candidate,
                   urlInfo, toggles, dom>>

\* activateView after await leaf.setViewState(...): the leaf has its view;
\* workspace.revealLeaf(leaf) and updateLinkList()
ActivateViewResume ==
    /\ plugin.opening
    /\ plugin.leaf
    /\ pluginUpdateLinkList([plugin EXCEPT !.opening = FALSE], content)
    /\ UNCHANGED <<content, filterDuplicates, candidate, urlInfo, toggles, dom>>

\* the ribbon icon's callback with the leaf there: activateView finds it,
\* reveals it and calls updateLinkList()
RibbonClick ==
    /\ plugin.registered
    /\ plugin.leaf
    /\ pluginUpdateLinkList(plugin, content)
    /\ UNCHANGED <<content, filterDuplicates, candidate, urlInfo, toggles, dom>>

\* the workspace makes a markdown editor (or another view) the active leaf
\* and triggers 'active-leaf-change'
OnActiveLeafChange(editor) ==
    /\ plugin.registered
    /\ pluginUpdateLinkList([plugin EXCEPT !.activeEditor = editor], content)
    /\ UNCHANGED <<content, filterDuplicates, candidate, urlInfo, toggles, dom>>

\* a line is typed into the active editor and the workspace triggers
\* 'editor-change'
OnEditorChange(line) ==
    /\ plugin.registered
    /\ plugin.activeEditor
    /\ content = <<>> \/ NumLines(content) < MaxEdits
    /\ content' = IF content = <<>> THEN line ELSE content \o <<NewLine>> \o line
    /\ pluginUpdateLinkList(plugin, content')
    /\ UNCHANGED <<filterDuplicates, candidate, urlInfo, toggles, dom>>

NextPlugin ==
    \/ Onload
    \/ ViewFactory
    \/ ActivateViewResume
    \/ RibbonClick
    \/ \E editor \in BOOLEAN : OnActiveLeafChange(editor)
    \/ \E line \in Lines : OnEditorChange(line)

SpecPlugin == InitPlugin /\ [][NextPlugin]_vars

-----------------------------------------------------------------------------
(* Properties *)

\* the lines of the document in the editor; line n (0-based) is docLines[n + 1]
docLines == split(content, NewLine)

Records(links) == {links[i] : i \in 1..Len(links)}

\* the text of the document under a record's position, <<>> when the position
\* lies outside the document
TextAt(pos) ==
    IF /\ pos.from.line = pos.to.line
       /\ pos.from.line \in 0..(Len(docLines) - 1)
       /\ 0 <= pos.from.ch
       /\ pos.from.ch <= pos.to.ch
       /\ pos.to.ch <= Len(docLines[pos.from.line + 1])
    THEN SubSeq(docLines[pos.from.line + 1], pos.from.ch + 1, pos.to.ch)
    ELSE <<>>

\* C1: span correctness.  For every record of frontmatterLinks and of
\* noteLinks, from and to are on the same line of the document, and the text
\* of that (absolute, 0-based) line between columns from.ch and to.ch is the
\* record's displayUrl.
C1_SpanCorrectness ==
    \A r \in Records(frontmatterLinks) \cup Records(noteLinks) :
        /\ r.position.from.line = r.position.to.line
        /\ r.displayUrl # <<>>
        /\ TextAt(r.position) = r.displayUrl

\* a document with a frontmatter header that yields a header record, and a
\* body record on a line after the header
C1_Witness ==
    /\ frontmatterLinks # <<>>
    /\ \E r \in Records(noteLinks) : r.position.from.line >= 3

\* the part of s before its first "/", and of that the part after its last "."
LastHostLabel(s) ==
    LET slashes == {i \in 1..Len(s) : s[i] = "/"}
        host == IF slashes = {} THEN s ELSE SubSeq(s, 1, Min(slashes) - 1)
        dots == {i \in 1..Len(host) : host[i] = "."}
    IN  IF dots = {} THEN host ELSE SubSeq(host, Max(dots) + 1, Len(host))

BeginsWith(s, t) == Len(s) >= Len(t) /\ SubSeq(s, 1, Len(t)) = t

\* C2: the decision rule of standardizeUrl.  A candidate that starts with
\* http:// or https:// is returned as it is (standardized = display =
\* candidate); any other candidate has a result exactly when the lower-cased
\* last dot-separated label of its part before the first "/" is a common TLD,
\* and then standardized = "https://" + candidate and display = candidate.
\* Every result's standardized value starts with http:// or https://.
C2_DecisionRule ==
    urlInfo.called =>
        LET r == urlInfo.result
        IN  /\ IF BeginsWith(candidate, HttpPrefix) \/ BeginsWith(candidate, HttpsPrefix)
               THEN r = [defined |-> TRUE, standardized |-> candidate, display |-> candidate]
               ELSE /\ r.defined <=> toLowerCase(LastHostLabel(candidate)) \in commonTLDs
                    /\ r.defined => /\ r.standardized = HttpsPrefix \o candidate
                                    /\ r.display = candidate
            /\ r.defined => \/ BeginsWith(r.standardized, HttpPrefix)
                            \/ BeginsWith(r.standardized, HttpsPrefix)

\* a bare domain with an upper-case TLD and a dotted path was accepted
C2_Witness ==
    /\ urlInfo.called
    /\ urlInfo.result.defined
    /\ urlInfo.result.standardized # candidate
    /\ candidate # toLowerCase(candidate)
    /\ \E i \in 1..Len(candidate) : candidate[i] = "/"

\* the records of links at the positions of the combined sequence (header
\* records, then body records) that no earlier position equals ignoring case
FirstOccurrences(links, offset) ==
    LET all == frontmatterLinks \o noteLinks
        IsFirst(i) == \A j \in 1..(offset + i - 1) :
                          toLowerCase(all[j].url) # toLowerCase(all[offset + i].url)
        kept == SelectSeq([i \in 1..Len(links) |-> i], IsFirst)
    IN  [k \in 1..Len(kept) |-> links[kept[k]]]

\* C3: with the filter enabled, the rendered lists keep a record exactly when
\* no earlier record of the combined sequence (header records in order, then
\* body records in order) has the same url ignoring letter case; so no two
\* rendered records have urls equal ignoring case, and a url present in both
\* sections is rendered in the header section only.
C3_Deduplication ==
    filterDuplicates =>
        /\ shown.frontmatter = FirstOccurrences(frontmatterLinks, 0)
        /\ shown.note = FirstOccurrences(noteLinks, Len(frontmatterLinks))
        /\ LET out == shown.frontmatter \o shown.note
           IN  \A i, j \in 1..Len(out) :
                   i # j => toLowerCase(out[i].url) # toLowerCase(out[j].url)
        /\ \A h \in Records(frontmatterLinks) : \A b \in Records(shown.note) :
               toLowerCase(h.url) # toLowerCase(b.url)

\* the filter is on, a header url is repeated in the header with another
\* letter case and again in the body, and the body copy is not rendered
C3_Witness ==
    /\ filterDuplicates
    /\ Len(shown.frontmatter) < Len(frontmatterLinks)
    /\ Len(shown.note) < Len(noteLinks)
    /\ shown.note # <<>>
    /\ \E h \in Records(frontmatterLinks) : \E b \in Records(noteLinks) :
           h.url # b.url /\ toLowerCase(h.url) = toLowerCase(b.url)

\* the lines after the first that are exactly the delimiter (1-based indices)
ClosingLines == {i \in 2..Len(docLines) : docLines[i] = Delimiter}

\* the first line is exactly --- and some later line is exactly ---
HasHeaderShape == docLines[1] = Delimiter /\ ClosingLines # {}

\* the lines strictly between the first line and the first later --- line
HeaderLines == IF HasHeaderShape THEN SubSeq(docLines, 2, Min(ClosingLines) - 1) ELSE <<>>

\* the header records of scanning the given lines as lines 1, 2, ... of the document
HeaderScan(lines) ==
    flatten([k \in 1..Len(lines) |-> frontmatterLineLinks(lines[k], k - 1, 0)])

\* the body records of scanning the document's lines from line n (0-based) on
BodyScan(n) ==
    flatten([k \in (n + 1)..Len(docLines) |-> noteLineLinks(docLines[k], k - 1, 0)])

\* C4: header detection.  The document is scanned as having a frontmatter
\* header exactly when its first line is --- and a later line is ---, and the
\* lines scanned for header links are then the lines strictly between the
\* first line and the first such later line: the header records are those of
\* these lines, and there are none when the document has no such shape.
C4_HeaderDetection == frontmatterLinks = HeaderScan(HeaderLines)

\* C5: header/body partition.  When the header scan finds a header, the body
\* scan starts at the line right after the closing delimiter line the header
\* scan used: the body records are those of the lines after it, and no line
\* of the document has records in both sections.
C5_Partition ==
    /\ frontmatterMatch(content).ok =>
           noteLinks = BodyScan(Len(split(frontmatterMatch(content).group, NewLine)) + 2)
    /\ \A h \in Records(frontmatterLinks) : \A b \in Records(noteLinks) :
           h.position.from.line # b.position.from.line

\* the 1-based positions of s where http:// or https:// is followed by at
\* least one character that is neither whitespace nor "]"
SchemeStarts(s) ==
    {i \in 1..Len(s) :
        schemeEnd(s, i) # 0 /\ RunEndNot(s, schemeEnd(s, i), NonUrlChars) > schemeEnd(s, i)}

\* the run from the scheme at i up to the next whitespace, "]" or end of line
SchemeRun(s, i) == SubSeq(s, i, RunEndNot(s, schemeEnd(s, i), NonUrlChars) - 1)

\* C6: explicit-scheme matching.  Every occurrence of http:// or https://
\* followed by one or more non-space, non-"]" characters, on a body line or
\* in a header value, yields a record whose displayUrl and url are the whole
\* run from the scheme to the next whitespace, "]" or end of line.
C6_ExplicitScheme ==
    /\ \A n \in (contentStartLine(content) + 1)..Len(docLines) :
           \A i \in SchemeStarts(docLines[n]) :
               \E r \in Records(noteLinks) :
                   /\ r.position.from.line = n - 1
                   /\ r.position.from.ch = i - 1
                   /\ r.displayUrl = SchemeRun(docLines[n], i)
                   /\ r.url = SchemeRun(docLines[n], i)
    /\ frontmatterMatch(content).ok =>
           LET lines == split(frontmatterMatch(content).group, NewLine)
           IN  \A k \in 1..Len(lines) :
                   propertyMatch(lines[k]).ok =>
                       \A i \in SchemeStarts(propertyMatch(lines[k]).value) :
                           \E r \in Records(frontmatterLinks) :
                               /\ r.position.from.line = k
                               /\ r.displayUrl = SchemeRun(propertyMatch(lines[k]).value, i)
                               /\ r.url = SchemeRun(propertyMatch(lines[k]).value, i)

\* the hashtag tokens of a line, left to right, without the "#": a "#"
\* followed by one or more word or hyphen characters
HashtagsOf(line) ==
    LET IsStart(i) == line[i] = "#" /\ i < Len(line) /\ line[i + 1] \in TagChars
        starts == SelectSeq([i \in 1..Len(line) |-> i], IsStart)
    IN  [k \in 1..Len(starts) |->
            SubSeq(line, starts[k] + 1, RunEnd(line, starts[k] + 1, TagChars) - 1)]

\* C7: line-scoped tags.  The tags of every body record are the hashtag
\* tokens, left to right, of the document line the record lies on; so the
\* records of one line carry the same tags and no tag of another line.
C7_LineScopedTags ==
    \A r \in Records(noteLinks) :
        /\ r.position.from.line \in 0..(Len(docLines) - 1)
        /\ r.tags = HashtagsOf(docLines[r.position.from.line + 1])

\* two body records of one line share a tag, and a body record of another
\* line carries a different, hyphenated tag
C7_Witness ==
    /\ \E i, j \in 1..Len(noteLinks) :
           /\ i # j
           /\ noteLinks[i].position.from.line = noteLinks[j].position.from.line
           /\ noteLinks[i].tags # <<>>
    /\ \E r, q \in Records(noteLinks) :
           /\ r.position.from.line # q.position.from.line
           /\ r.tags # <<>> /\ q.tags # <<>> /\ r.tags # q.tags
           /\ \E t \in Records(r.tags) : \E c \in Records(t) : c = "-"

\* C8 as stated: the tags of a record are empty if and only if the record
\* comes from the header.
C8_TagsEmptyIffHeader ==
    \A r \in Records(frontmatterLinks) \cup Records(noteLinks) :
        (r.tags = <<>>) <=> r.isFromFrontmatter

\* C8 amended: every header record has empty tags, also when its line holds a
\* hashtag; a body record has empty tags exactly when its line holds no
\* hashtag token.
C8_HeaderTagsEmpty ==
    /\ \A r \in Records(frontmatterLinks) : r.isFromFrontmatter /\ r.tags = <<>>
    /\ \A r \in Records(noteLinks) :
           /\ ~r.isFromFrontmatter
           /\ (r.tags = <<>>) <=> (HashtagsOf(docLines[r.position.from.line + 1]) = <<>>)

\* a header record of a line that holds a hashtag, a body record without
\* tags and a body record with tags
C8_Witness ==
    /\ \E r \in Records(frontmatterLinks) :
           HashtagsOf(docLines[r.position.from.line + 1]) # <<>>
    /\ \E r \in Records(noteLinks) : r.tags = <<>>

\* C9: malformed frontmatter fallback.  A document whose first line is ---
\* with no later --- line, or with --- lines of which none is the first line,
\* yields no header record, and its body records are those of scanning every
\* line from line 0 on.
C9_MalformedFallback ==
    (\/ docLines[1] = Delimiter /\ ClosingLines = {}
     \/ docLines[1] # Delimiter /\ ClosingLines # {})
        => /\ frontmatterLinks = <<>>
           /\ noteLinks = BodyScan(0)

\* C10: match positions on one line.  The spans of the records of one line
\* do not overlap and their start columns increase strictly in output order,
\* in the header records as in the body records.
C10_MatchPositions ==
    \A links \in {frontmatterLinks, noteLinks} :
        \A i, j \in 1..Len(links) :
            (i < j /\ links[i].position.from.line = links[j].position.from.line)
                => links[i].position.to.ch <= links[j].position.from.ch

\* a is b with some elements left out
RECURSIVE IsSubsequence(_, _)
IsSubsequence(a, b) ==
    IF a = <<>> THEN TRUE
    ELSE IF b = <<>> THEN FALSE
    ELSE IF Head(a) = Head(b) THEN IsSubsequence(Tail(a), Tail(b))
    ELSE IsSubsequence(a, Tail(b))

\* C11: deduplication monotonicity.  With the filter on or off, each section
\* returned by filterLinks is a subsequence of its input section: no record
\* that is not in the input, not more records than the input, and the
\* surviving records in their original relative order.
C11_Monotonicity ==
    /\ IsSubsequence(shown.frontmatter, frontmatterLinks)
    /\ IsSubsequence(shown.note, noteLinks)
    /\ Len(shown.frontmatter) <= Len(frontmatterLinks)
    /\ Len(shown.note) <= Len(noteLinks)
    /\ Records(shown.frontmatter) \subseteq Records(frontmatterLinks)
    /\ Records(shown.note) \subseteq Records(noteLinks)

\* the filter is on, two different header records survive in order and a
\* body record is dropped
C11_Witness ==
    /\ filterDuplicates
    /\ Len(shown.frontmatter) = 2
    /\ shown.frontmatter[1] # shown.frontmatter[2]
    /\ Len(shown.note) < Len(noteLinks)

\* C13: filtering is non-destructive.  A toggle of the checkbox leaves the
\* lists held by the view exactly as the last updateLinks call stored them
\* (same records, same order), and a toggle that switches the filter off
\* shows them in full.
C13_NonDestructive ==
    [][filterDuplicates' # filterDuplicates =>
          /\ frontmatterLinks' = frontmatterLinks
          /\ noteLinks' = noteLinks
          /\ ~filterDuplicates' =>
                 shown' = [frontmatter |-> frontmatterLinks, note |-> noteLinks]]_vars

\* the filter is off again after two toggles or more, and the lists shown in
\* full hold a link the filter drops
C13_Witness ==
    /\ toggles >= 2
    /\ ~filterDuplicates
    /\ shown = [frontmatter |-> frontmatterLinks, note |-> noteLinks]
    /\ filterLinks(TRUE, frontmatterLinks, noteLinks) # shown

\* C12: most-recent-result display.  Once every started render has finished
\* and no checkbox listener is waiting for saveSettings, the container holds
\* one filter checkbox followed by exactly the sections computed from the
\* lists last passed to updateLinks under the current flag: never the
\* sections of two renders at once.
C12_MostRecentResult ==
    (dom.pending = 0 /\ dom.saving = 0 /\ dom.panel # <<>>) =>
        dom.panel = <<Checkbox>> \o renderRest(filterDuplicates, frontmatterLinks, noteLinks)

HasKey(line) ==
    \E p \in 2..Len(line) :
        line[p] = ":" /\ \A j \in 1..(p - 1) : line[j] \in WordChars

\* the word characters before the first colon of line
KeyOf(line) == SubSeq(line, 1, Min({p \in 1..Len(line) : line[p] = ":"}) - 1)

\* the records of links that begin on line n
OnLine(links, n) ==
    LET Here(r) == r.position.from.line = n
    IN  SelectSeq(links, Here)

\* C15: a malformed header line is skipped.  A line of the header block
\* without the key: value shape gives no record and does not end the scan:
\* every header record lies on a key: value line and carries its key, and
\* every key: value line, whatever lines came before it, gives the records
\* of its own accepted URLs.
C15_MalformedLineSkipped ==
    LET lines == frontmatterLines(content)
    IN  /\ \A r \in Records(frontmatterLinks) :
               /\ r.position.from.line \in 1..Len(lines)
               /\ HasKey(lines[r.position.from.line])
               /\ r.propertyKey = KeyOf(lines[r.position.from.line])
        /\ \A k \in 1..Len(lines) :
               HasKey(lines[k]) =>
                   OnLine(frontmatterLinks, k) = frontmatterLineLinks(lines[k], k - 1, 0)

\* a header line without a key that holds URLs, and a later key: value line
\* with records
C15_Witness ==
    LET lines == frontmatterLines(content)
    IN  \E k \in 1..Len(lines) : \E j \in (k + 1)..Len(lines) :
            /\ ~HasKey(lines[k])
            /\ urlMatches(TRUE, lines[k], 0) # <<>>
            /\ HasKey(lines[j])
            /\ OnLine(frontmatterLinks, j) # <<>>

\* some match of the sequence ms is refused by standardizeUrl
HasRejected(ms) == \E i \in 1..Len(ms) : ~standardizeUrl(ms[i].text).defined

\* C16: cursor reset per line.  Within an extraction pass the scan of every
\* header value and of every body line is entered with urlRegex.lastIndex = 0,
\* also after a line with matches that standardizeUrl refused, so each line
\* gives the records it gives when scanned on its own.
C16_CursorReset ==
    LET lines == frontmatterLines(content)
        start == contentStartLine(content)
        contentLines == noteContentLines(content)
        fs == frontmatterScan(lines, 0, 0)
        ns == noteScan(contentLines, 0, start, 0)
    IN  /\ \A k \in 1..Len(fs) : fs[k].lastIndex = 0
        /\ \A k \in 1..Len(ns) : ns[k].lastIndex = 0
        /\ frontmatterLinks =
               flatten([k \in 1..Len(lines) |-> frontmatterLineLinks(lines[k], k - 1, 0)])
        /\ noteLinks =
               flatten([k \in 1..Len(contentLines) |->
                           noteLineLinks(contentLines[k], (k - 1) + start, 0)])

\* a header value with a refused match, and on the next line a record of a
\* URL at column 0 of the value
C16_Witness ==
    LET lines == frontmatterLines(content)
    IN  \E k \in 1..(Len(lines) - 1) :
            /\ propertyMatch(lines[k]).ok
            /\ HasRejected(urlMatches(TRUE, propertyMatch(lines[k]).value, 0))
            /\ propertyMatch(lines[k + 1]).ok
            /\ urlMatches(TRUE, propertyMatch(lines[k + 1]).value, 0) # <<>>
            /\ urlMatches(TRUE, propertyMatch(lines[k + 1]).value, 0)[1].index = 0
            /\ OnLine(frontmatterLinks, k + 1) # <<>>

\* C17: view availability.  In every sequence of plugin events, whenever
\* updateLinkList runs with an active markdown editor the plugin's view
\* field refers to a constructed LinkListView: updateLinks is never called
\* on an undefined view (no TypeError is thrown).
C17_ViewAvailable == ~plugin.typeError

====
